---- MODULE Spec2Model ----
(***************************************************************************)
(* A model of boomi_exporter_v6.py: the credential check, the paginated    *)
(* metadata query (get_all_components), the export loop of main and the    *)
(* pure function sanitize_name.                                            *)
(*                                                                         *)
(* A Python str is a sequence of one-character strings, so that formatting *)
(* and sanitising are computed character by character.  Python's None is   *)
(* the value None below.  A dict is a record; a key that is absent holds   *)
(* None (dict.get without default), JSON null values are not modelled.     *)
(***************************************************************************)
EXTENDS Integers, Sequences, FiniteSets, TLC

\* ------------------------------------------------------------------ bounds

\* Continuation/query calls that are recorded in the history variables; past
\* it the endpoint serves only empty pages and the histories stop growing.
MaxCalls == 3
\* Longest input string of the sanitizer's own specification.
MaxLen == 3

\* ------------------------------------------------------------- Python values

None == <<"None">>

\* bool(v) of a str-or-None value
Truthy(v) == v # None /\ v # <<>>

\* the three credentials tested without the API token
all_without_token(a, u, t) == Truthy(a) /\ Truthy(u)

\* all([...]) over the three credentials (line 195)
all(a, u, t) == Truthy(a) /\ Truthy(u) /\ Truthy(t)

\* dict.get(key, default) on a value read from a record field
Get(v, default) == IF v = None THEN default ELSE v

\* f"{version}" : str(None) is the text None
Str(v) == IF v = None THEN <<"N", "o", "n", "e">> ELSE v

EXPORT_DIRECTORY == <<"boomi_export">>

\* --------------------------------------------------------------- sanitize_name

AlnumChars == {"a", "x", "y", "v", "F", "S", "N", "o", "l", "d", "e", "r", "m", "U",
               "n", "C", "p", "t", "1", "2"}
KeptChars == {" ", ".", "_", "-"}
SpaceChars == {" ", "\t", "\n"}

isalnum(c) == c \in AlnumChars
isspace(c) == c \in SpaceChars

RECURSIVE rstrip(_)
rstrip(s) ==
  IF s = <<>> THEN <<>>
  ELSE IF isspace(s[Len(s)]) THEN rstrip(SubSeq(s, 1, Len(s) - 1))
  ELSE s

\* sanitize_name without the trailing .rstrip()
sanitize_name_no_rstrip(name) ==
  [k \in 1..Len(name) |->
     IF isalnum(name[k]) \/ name[k] \in KeptChars THEN name[k] ELSE "_"]

sanitize_name(name) ==
  rstrip([k \in 1..Len(name) |->
            IF isalnum(name[k]) \/ name[k] \in KeptChars THEN name[k] ELSE "_"])

\* str.replace(old, new), character for character (line 234)
replace(s, old, new) == [k \in 1..Len(s) |-> IF s[k] = old THEN new ELSE s[k]]

os_sep == "/"

\* os.path.join(EXPORT_DIRECTORY, folder): a path is the sequence of its
\* components; joining the empty string names the export directory itself.
join(dir, folder) == IF folder = <<>> THEN <<dir>> ELSE <<dir, folder>>

\* ------------------------------------------------------- the remote endpoint

\* ComponentMetadata records the query endpoint can serve.  Absent keys are None.
Meta(id, name, version, folder) ==
  [componentId |-> id, name |-> name, version |-> version, folderName |-> folder]

\* rA and rB differ in componentId and in name, and share version and folder.
rA == Meta(<<"v", "1", "_", "x">>, <<"a">>, <<"1">>, <<"F", "/", "S">>)
rB == Meta(<<"x">>, <<"a", "_", "v", "1">>, <<"1">>, <<"F", "/", "S">>)
\* rC has no componentId and no folderName, rD an empty componentId and no name.
rC == Meta(None, <<"a", "/">>, <<"2">>, None)
rD == Meta(<<>>, None, None, <<"F">>)

Pages == {<<>>, <<rA, rC>>, <<rD, rB>>}

T1 == <<"T", "1">>
T2 == <<"T", "2">>
TokenValues == {None, <<>>, T1, T2}

\* What a query or continuation call can come back with: a transport error,
\* a non-2xx status, or a JSON object with or without the keys result and
\* queryToken.
Responses ==
  {[status |-> s, has_result |-> FALSE, result |-> <<>>, queryToken |-> None] :
      s \in {"transport_error", "http_error"}}
  \cup {[status |-> "ok", has_result |-> TRUE, result |-> p, queryToken |-> t] :
      p \in Pages, t \in TokenValues}
  \cup {[status |-> "ok", has_result |-> FALSE, result |-> <<>>, queryToken |-> t] :
      t \in {T1}}

\* Past MaxCalls recorded calls the endpoint serves empty pages only.
ResponsesWhen(sat) == IF sat THEN {r \in Responses : r.result = <<>>} ELSE Responses

DocX == <<"x">>
DocY == <<"y">>

\* What GET /Component/<id> can come back with.
FetchResponses ==
  {[status |-> s, text |-> <<>>] : s \in {"transport_error", "http_error"}}
  \cup {[status |-> "ok", text |-> t] : t \in {<<>>, DocX, DocY}}

\* ------------------------------------------------------------------- state

VARIABLES
  BOOMI_ACCOUNT_ID, BOOMI_USERNAME, BOOMI_API_TOKEN,  \* lines 20-22
  BASE_URL,        \* line 25, set at line 201
  pc,              \* position of the run
  all_components,  \* get_all_components: the accumulator (line 78)
  query_token,     \* get_all_components: line 113 / 147
  components,      \* main: line 209
  i,               \* main: 1-based index of the record the loop is at (line 216)
  dirs,            \* directories that exist
  files,           \* the files that exist: a set of [path, content]
  stdout,          \* the run's closing messages, in order
  inflight,        \* network calls issued and not yet returned
  calls,           \* history: calls to /ComponentMetadata/query issued, up to MaxCalls
  pagesLog,        \* history: the result lists of the successful responses
  saturated,       \* history: more than MaxCalls calls were issued
  sentToken,       \* history: the token inside the latest QueryMoreRequest
  lastResponse,    \* history: the latest query/continuation response
  nFetch,          \* history: number of GET /Component calls issued
  log,             \* history: one entry per record the export loop finished
  san              \* the sanitizer's own specification: input and outputs

vars == <<BOOMI_ACCOUNT_ID, BOOMI_USERNAME, BOOMI_API_TOKEN, BASE_URL, pc,
          all_components, query_token, components, i, dirs, files, stdout,
          inflight, calls, pagesLog, saturated, sentToken, lastResponse,
          nFetch, log, san>>

envVars == <<BOOMI_ACCOUNT_ID, BOOMI_USERNAME, BOOMI_API_TOKEN>>
pageVars == <<all_components, query_token>>
fsVars == <<dirs, files>>
histVars == <<calls, pagesLog, saturated, sentToken, lastResponse>>

CredentialValues == {None, <<>>, <<"u">>}

NoResponse == [status |-> "none", has_result |-> FALSE, result |-> <<>>, queryToken |-> None]

SanIdle == [step |-> "idle", input |-> <<>>, once |-> <<>>, twice |-> <<>>]

\* The histories describe one call of get_all_components.
HistInit ==
  /\ calls = 0
  /\ pagesLog = <<>>
  /\ saturated = FALSE
  /\ sentToken = None
  /\ lastResponse = NoResponse

ResetHist ==
  /\ calls' = 0
  /\ pagesLog' = <<>>
  /\ saturated' = FALSE
  /\ sentToken' = None
  /\ lastResponse' = NoResponse

Init ==
  /\ BOOMI_ACCOUNT_ID \in CredentialValues
  /\ BOOMI_USERNAME \in CredentialValues
  /\ BOOMI_API_TOKEN \in CredentialValues
  /\ BASE_URL = <<>>
  /\ pc = "main"
  /\ all_components = <<>>
  /\ query_token = None
  /\ components = <<>>
  /\ i = 1
  /\ dirs \in {{}, {<<EXPORT_DIRECTORY>>}}
  /\ files = {}
  /\ stdout = <<>>
  /\ inflight = 0
  /\ HistInit
  /\ nFetch = 0
  /\ log = <<>>
  /\ san = SanIdle

\* ------------------------------------------------------------------ main

ErrorMissingEnv == "Error: One or more environment variables are missing."
NoComponents == "No components to export. Exiting."
ExportComplete == "Export process complete!"

UrlPrefix == <<"https://api.boomi.com/api/rest/v1/">>

\* Lines 193-198: the credential check fails; two messages, then return.
MainMissingEnv ==
  /\ pc = "main"
  /\ ~all(BOOMI_ACCOUNT_ID, BOOMI_USERNAME, BOOMI_API_TOKEN)
  /\ stdout' = Append(stdout, ErrorMissingEnv)
  /\ pc' = "done"
  /\ UNCHANGED <<envVars, BASE_URL, pageVars, components, i, fsVars, inflight,
                 histVars, nFetch, log, san>>

\* Lines 199-206: BASE_URL is built and the export directory created if it is
\* missing.  ok = FALSE: os.makedirs raises OSError, which nothing catches.
MainSetup(ok) ==
  /\ pc = "main"
  /\ all(BOOMI_ACCOUNT_ID, BOOMI_USERNAME, BOOMI_API_TOKEN)
  /\ BASE_URL' = UrlPrefix \o BOOMI_ACCOUNT_ID
  /\ IF <<EXPORT_DIRECTORY>> \in dirs
       THEN /\ ok
            /\ pc' = "query"
            /\ dirs' = dirs
       ELSE IF ok
         THEN /\ pc' = "query"
              /\ dirs' = dirs \cup {<<EXPORT_DIRECTORY>>}
         ELSE /\ pc' = "crashed"
              /\ dirs' = dirs
  /\ UNCHANGED <<envVars, pageVars, components, i, files, stdout, inflight,
                 histVars, nFetch, log, san>>

\* ----------------------------------------------------- get_all_components

\* the page put in front of the accumulator
extend_in_front(acc, page) == page \o acc

\* list.extend (lines 110, 143)
extend(acc, page) == acc \o page

\* the token of the first page kept for every later call
NextToken_stale(response) ==
  IF Truthy(query_token) /\ Truthy(response.queryToken)
    THEN query_token ELSE response.queryToken

\* response.get('queryToken') (lines 113, 147)
NextToken(response) == response.queryToken

\* make_api_request returned None, or `not response or 'result' not in response`
NoResult(response) == response.status # "ok" \/ ~response.has_result

\* Line 103: the initial query is issued.
SendQuery ==
  /\ pc = "query"
  /\ pc' = "query_wait"
  /\ inflight' = inflight + 1
  /\ calls' = calls + 1
  /\ UNCHANGED <<envVars, BASE_URL, pageVars, components, i, fsVars, stdout,
                 pagesLog, saturated, sentToken, lastResponse, nFetch, log, san>>

\* Lines 105-107: the initial query failed; get_all_components returns [].
RecvQueryFail(r) ==
  /\ pc = "query_wait"
  /\ NoResult(r)
  /\ components' = <<>>
  /\ pc' = "got"
  /\ inflight' = inflight - 1
  /\ lastResponse' = r
  /\ UNCHANGED <<envVars, BASE_URL, pageVars, i, fsVars, stdout, calls, pagesLog,
                 saturated, sentToken, nFetch, log, san>>

\* Lines 109-113: the first page.
RecvQueryOk(r) ==
  /\ pc = "query_wait"
  /\ ~NoResult(r)
  /\ all_components' = extend(all_components, r.result)
  /\ query_token' = NextToken(r)
  /\ pc' = "more"
  /\ inflight' = inflight - 1
  /\ pagesLog' = Append(pagesLog, r.result)
  /\ lastResponse' = r
  /\ UNCHANGED <<envVars, BASE_URL, components, i, fsVars, stdout, calls, saturated,
                 sentToken, nFetch, log, san>>

\* Lines 116-126: `while query_token` holds; the continuation call is issued
\* with the token inside the QueryMoreRequest envelope.
SendMore ==
  /\ pc = "more"
  /\ Truthy(query_token)
  /\ pc' = "more_wait"
  /\ inflight' = inflight + 1
  /\ sentToken' = query_token
  /\ calls' = IF calls < MaxCalls THEN calls + 1 ELSE calls
  /\ saturated' = (saturated \/ calls >= MaxCalls)
  /\ UNCHANGED <<envVars, BASE_URL, pageVars, components, i, fsVars, stdout,
                 pagesLog, lastResponse, nFetch, log, san>>

\* Line 116: `while query_token` fails; the loop ends.
LoopExit ==
  /\ pc = "more"
  /\ ~Truthy(query_token)
  /\ pc' = "return"
  /\ UNCHANGED <<envVars, BASE_URL, pageVars, components, i, fsVars, stdout,
                 inflight, histVars, nFetch, log, san>>

\* the continuation call failed and the pages so far are discarded
RecvMoreFail_discard(r) ==
  /\ pc = "more_wait"
  /\ NoResult(r)
  /\ pc' = "return"
  /\ inflight' = inflight - 1
  /\ lastResponse' = r
  /\ all_components' = <<>>
  /\ UNCHANGED <<envVars, BASE_URL, query_token, components, i, fsVars, stdout, calls,
                 pagesLog, saturated, sentToken, nFetch, log, san>>

\* Lines 129-141: the continuation call failed; break, keeping the accumulator.
RecvMoreFail(r) ==
  /\ pc = "more_wait"
  /\ NoResult(r)
  /\ pc' = "return"
  /\ inflight' = inflight - 1
  /\ lastResponse' = r
  /\ UNCHANGED <<envVars, BASE_URL, pageVars, components, i, fsVars, stdout, calls,
                 pagesLog, saturated, sentToken, nFetch, log, san>>

\* Lines 143-147: a further page.
RecvMoreOk(r) ==
  /\ pc = "more_wait"
  /\ ~NoResult(r)
  /\ all_components' = extend(all_components, r.result)
  /\ query_token' = NextToken(r)
  /\ pc' = "more"
  /\ inflight' = inflight - 1
  /\ pagesLog' = IF saturated THEN pagesLog ELSE Append(pagesLog, r.result)
  /\ lastResponse' = r
  /\ UNCHANGED <<envVars, BASE_URL, components, i, fsVars, stdout, calls, saturated,
                 sentToken, nFetch, log, san>>

\* Lines 149-150 and 209: return all_components.
Return ==
  /\ pc = "return"
  /\ components' = all_components
  /\ pc' = "got"
  /\ UNCHANGED <<envVars, BASE_URL, pageVars, i, fsVars, stdout, inflight,
                 histVars, nFetch, log, san>>

\* Lines 210-212: nothing to export.  (The histories of the finished call of
\* get_all_components are dropped once main has looked at its result.)
GotNone ==
  /\ pc = "got"
  /\ components = <<>>
  /\ stdout' = Append(stdout, NoComponents)
  /\ pc' = "done"
  /\ ResetHist
  /\ UNCHANGED <<envVars, BASE_URL, pageVars, components, i, fsVars, inflight,
                 nFetch, log, san>>

\* Lines 215-216: the export loop starts.
GotSome ==
  /\ pc = "got"
  /\ components # <<>>
  /\ pc' = "export"
  /\ i' = 1
  /\ ResetHist
  /\ UNCHANGED <<envVars, BASE_URL, pageVars, components, fsVars, stdout, inflight,
                 nFetch, log, san>>

\* --------------------------------------------------------- the export loop

UnnamedComponent ==
  <<"U", "n", "n", "a", "m", "e", "d", " ", "C", "o", "m", "p", "o", "n", "e", "n", "t">>
NoFolder == <<"N", "o", " ", "F", "o", "l", "d", "e", "r">>

\* Lines 227, 233-234
local_folder_path(comp_meta) ==
  join(EXPORT_DIRECTORY,
       replace(sanitize_name(Get(comp_meta.folderName, NoFolder)), "/", os_sep))

\* Lines 218-219, 247-249
file_name(comp_meta) ==
  sanitize_name(Get(comp_meta.name, UnnamedComponent)) \o <<"_", "v">>
    \o Str(comp_meta.version) \o <<"_">> \o comp_meta.componentId
    \o <<".", "x", "m", "l">>

\* Line 250
file_path(comp_meta) == <<local_folder_path(comp_meta), file_name(comp_meta)>>

\* only an absent id is taken for missing
MissingId_none_only(comp_meta) == comp_meta.componentId = None

\* Line 222: `if not component_id`
MissingId(comp_meta) == ~Truthy(comp_meta.componentId)

\* Line 162: get_component_definition's own guard; a request is made only past it
RequestsDocument(component_id) == Truthy(component_id)

\* the loop stays on the record
NextIndex_same(k) == k

\* enumerate(components): the next record
NextIndex(k) == k + 1

\* A log entry: the record's index, how its iteration ended, what
\* get_component_definition returned (None when it was not called), the file
\* path and what the iteration left in that file (None: it touched no file).
Entry(k, outcome, fetched, path, written) ==
  [idx |-> k, outcome |-> outcome, fetched |-> fetched, path |-> path,
   written |-> written]

NoPath == <<>>

\* Lines 222-224: a record without an id is skipped.
SkipRecord ==
  /\ pc = "export"
  /\ i <= Len(components)
  /\ MissingId(components[i])
  /\ log' = Append(log, Entry(i, "skipped", None, NoPath, None))
  /\ i' = NextIndex(i)
  /\ UNCHANGED <<envVars, BASE_URL, pc, pageVars, components, fsVars, stdout,
                 inflight, histVars, nFetch, san>>

\* the OSError of os.makedirs ends the run
MakeDirFails_abort ==
  /\ pc = "export"
  /\ i <= Len(components)
  /\ ~MissingId(components[i])
  /\ local_folder_path(components[i]) \notin dirs
  /\ pc' = "done"
  /\ UNCHANGED <<envVars, BASE_URL, pageVars, components, i, fsVars, stdout,
                 inflight, histVars, nFetch, log, san>>

\* Lines 235-240: the folder is missing and os.makedirs raises OSError.
MakeDirFails ==
  /\ pc = "export"
  /\ i <= Len(components)
  /\ ~MissingId(components[i])
  /\ local_folder_path(components[i]) \notin dirs
  /\ log' = Append(log, Entry(i, "dir_failed", None, NoPath, None))
  /\ i' = NextIndex(i)
  /\ UNCHANGED <<envVars, BASE_URL, pc, pageVars, components, fsVars, stdout,
                 inflight, histVars, nFetch, san>>

\* Lines 233-243 and 162-172: the folder exists or is created, then the
\* document is requested.
StartFetch ==
  /\ pc = "export"
  /\ i <= Len(components)
  /\ ~MissingId(components[i])
  /\ dirs' = dirs \cup {local_folder_path(components[i])}
  /\ IF RequestsDocument(components[i].componentId)
       THEN /\ pc' = "fetch_wait"
            /\ inflight' = inflight + 1
            /\ nFetch' = nFetch + 1
            /\ UNCHANGED <<i, log>>
       ELSE /\ log' = Append(log, Entry(i, "no_content", None, NoPath, None))
            /\ i' = NextIndex(i)
            /\ UNCHANGED <<pc, inflight, nFetch>>
  /\ UNCHANGED <<envVars, BASE_URL, pageVars, components, files, stdout,
                 histVars, san>>

\* response.text, or None on HTTPError / RequestException (lines 171-180)
DefinitionOf(r) == IF r.status = "ok" THEN r.text ELSE None

\* Lines 245, 257-258: no content came back; nothing is written.
RecvFetchNoContent(r) ==
  /\ pc = "fetch_wait"
  /\ ~Truthy(DefinitionOf(r))
  /\ log' = Append(log, Entry(i, "no_content", DefinitionOf(r), NoPath, None))
  /\ i' = NextIndex(i)
  /\ pc' = "export"
  /\ inflight' = inflight - 1
  /\ UNCHANGED <<envVars, BASE_URL, pageVars, components, fsVars, stdout,
                 histVars, nFetch, san>>

\* open(file_path, 'w') creates or truncates the file, write and close put the
\* text into it; the file is replaced by one holding `content`.
WriteFile(fs, path, content) ==
  {f \in fs : f.path # path} \cup {[path |-> path, content |-> content]}

\* Lines 245-254: the document is written.
RecvFetchSaved(r) ==
  /\ pc = "fetch_wait"
  /\ Truthy(DefinitionOf(r))
  /\ files' = WriteFile(files, file_path(components[i]), DefinitionOf(r))
  /\ log' = Append(log, Entry(i, "saved", DefinitionOf(r), file_path(components[i]),
                          DefinitionOf(r)))
  /\ i' = NextIndex(i)
  /\ pc' = "export"
  /\ inflight' = inflight - 1
  /\ UNCHANGED <<envVars, BASE_URL, pageVars, components, dirs, stdout,
                 histVars, nFetch, san>>

\* Lines 251-252, 255-256: open raises IOError; the file system is as it was.
RecvFetchOpenFails(r) ==
  /\ pc = "fetch_wait"
  /\ Truthy(DefinitionOf(r))
  /\ log' = Append(log, Entry(i, "open_failed", DefinitionOf(r),
                          file_path(components[i]), None))
  /\ i' = NextIndex(i)
  /\ pc' = "export"
  /\ inflight' = inflight - 1
  /\ UNCHANGED <<envVars, BASE_URL, pageVars, components, fsVars, stdout,
                 histVars, nFetch, san>>

\* What a write that raises can leave behind: any proper prefix of the text.
ProperPrefixes(text) == {SubSeq(text, 1, n) : n \in 0..(Len(text) - 1)}

\* Lines 252-253, 255-256: open succeeded (the file now exists, truncated) and
\* write or close raises IOError; what was flushed stays in the file.
RecvFetchWriteFails(r, partial) ==
  /\ pc = "fetch_wait"
  /\ Truthy(DefinitionOf(r))
  /\ partial \in ProperPrefixes(DefinitionOf(r))
  /\ files' = WriteFile(files, file_path(components[i]), partial)
  /\ log' = Append(log, Entry(i, "write_failed", DefinitionOf(r),
                          file_path(components[i]), partial))
  /\ i' = NextIndex(i)
  /\ pc' = "export"
  /\ inflight' = inflight - 1
  /\ UNCHANGED <<envVars, BASE_URL, pageVars, components, dirs, stdout,
                 histVars, nFetch, san>>

\* Line 260: the loop is over.
Finish ==
  /\ pc = "export"
  /\ i > Len(components)
  /\ stdout' = Append(stdout, ExportComplete)
  /\ pc' = "done"
  /\ UNCHANGED <<envVars, BASE_URL, pageVars, components, i, fsVars, inflight,
                 histVars, nFetch, log, san>>

Next ==
  \/ MainMissingEnv
  \/ \E ok \in BOOLEAN : MainSetup(ok)
  \/ SendQuery
  \/ \E r \in Responses : RecvQueryFail(r)
  \/ \E r \in Responses : RecvQueryOk(r)
  \/ SendMore
  \/ LoopExit
  \/ \E r \in ResponsesWhen(saturated) : RecvMoreFail(r)
  \/ \E r \in ResponsesWhen(saturated) : RecvMoreOk(r)
  \/ Return
  \/ GotNone
  \/ GotSome
  \/ SkipRecord
  \/ MakeDirFails
  \/ StartFetch
  \/ \E r \in FetchResponses : RecvFetchNoContent(r)
  \/ \E r \in FetchResponses : RecvFetchSaved(r)
  \/ \E r \in FetchResponses : RecvFetchOpenFails(r)
  \/ \E r \in FetchResponses, partial \in {<<>>, DocX, DocY} : RecvFetchWriteFails(r, partial)
  \/ Finish

Spec == Init /\ [][Next]_vars

\* The run up to the return of get_all_components.
PageNext ==
  \/ MainMissingEnv
  \/ \E ok \in BOOLEAN : MainSetup(ok)
  \/ SendQuery
  \/ \E r \in Responses : RecvQueryFail(r)
  \/ \E r \in Responses : RecvQueryOk(r)
  \/ SendMore
  \/ LoopExit
  \/ \E r \in ResponsesWhen(saturated) : RecvMoreFail(r)
  \/ \E r \in ResponsesWhen(saturated) : RecvMoreOk(r)
  \/ Return

\* get_all_components with every step taken: the interpreter keeps running
\* and every network call returns.
PageSpec == Init /\ [][PageNext]_vars /\ WF_vars(PageNext)

\* ------------------------------------------- the sanitizer on its own

SanChars == {"a", "1", " ", ".", "_", "-", "/", "\t"}

SanInputs == UNION {[1..n -> SanChars] : n \in 0..MaxLen}

\* No run of main: only sanitize_name is applied, to any string up to MaxLen.
SanInit ==
  /\ BOOMI_ACCOUNT_ID = None
  /\ BOOMI_USERNAME = None
  /\ BOOMI_API_TOKEN = None
  /\ BASE_URL = <<>>
  /\ pc = "sanitize"
  /\ all_components = <<>>
  /\ query_token = None
  /\ components = <<>>
  /\ i = 1
  /\ dirs = {}
  /\ files = {}
  /\ stdout = <<>>
  /\ inflight = 0
  /\ HistInit
  /\ nFetch = 0
  /\ log = <<>>
  /\ san \in {[step |-> "input", input |-> s, once |-> <<>>, twice |-> <<>>] :
                s \in SanInputs}

mainVars == <<BOOMI_ACCOUNT_ID, BOOMI_USERNAME, BOOMI_API_TOKEN, BASE_URL, pc,
              all_components, query_token, components, i, dirs, files, stdout,
              inflight, calls, pagesLog, saturated, sentToken, lastResponse,
              nFetch, log>>

\* sanitize_name(s)
SanitizeOnce ==
  /\ san.step = "input"
  /\ san' = [san EXCEPT !.step = "once", !.once = sanitize_name(san.input)]
  /\ UNCHANGED mainVars

\* sanitize_name(sanitize_name(s))
SanitizeTwice ==
  /\ san.step = "once"
  /\ san' = [san EXCEPT !.step = "twice", !.twice = sanitize_name(san.once)]
  /\ UNCHANGED mainVars

SanNext == SanitizeOnce \/ SanitizeTwice

SanSpec == SanInit /\ [][SanNext]_vars

\* ------------------------------------------------------------------ claims

SafeChar(c) == isalnum(c) \/ c \in {" ", ".", "_", "-"}

\* C8: for every input string, sanitize_name's output holds only alphanumeric
\* characters, space, '.', '_' and '-', does not end in whitespace, and
\* sanitising it again changes nothing.
C8_SanitizeSafeIdempotent ==
  /\ san.step \in {"once", "twice"} =>
       /\ \A k \in 1..Len(san.once) : SafeChar(san.once[k])
       /\ san.once # <<>> => ~isspace(san.once[Len(san.once)])
  /\ san.step = "twice" => san.twice = san.once

\* An input with a character to replace and trailing whitespace went through twice.
C8_Witness ==
  /\ san.step = "twice"
  /\ san.input = <<"a", "/", " ">>
  /\ san.once = <<"a", "_">>
  /\ san.twice = <<"a", "_">>

\* Concatenation of a sequence of lists.
RECURSIVE Flatten(_)
Flatten(pages) ==
  IF pages = <<>> THEN <<>> ELSE Head(pages) \o Flatten(Tail(pages))

\* A query/continuation call that did not deliver a result list.
FailedResponse(r) == r.status \in {"transport_error", "http_error"} \/ ~r.has_result

\* get_all_components is about to return (all_components holds its result) or
\* has returned (components holds it).
Returning == pc \in {"return", "got"}

\* C1: when every response carried a result list and only the last one carried
\* no token, get_all_components issued exactly as many calls as there were
\* pages and returns the pages' records concatenated in the order received.
C1_PaginationConcatenates ==
  (/\ Returning
   /\ ~saturated
   /\ lastResponse.status = "ok"
   /\ ~FailedResponse(lastResponse)
   /\ ~Truthy(lastResponse.queryToken))
  => /\ calls = Len(pagesLog)
     /\ inflight = 0
     /\ all_components = Flatten(pagesLog)
     /\ pc = "got" => components = Flatten(pagesLog)

\* Three pages with tokens T1, T2, None: three calls, six records in order.
C1_Witness ==
  /\ pc = "got"
  /\ calls = 3
  /\ ~saturated
  /\ sentToken = T2
  /\ lastResponse.status = "ok" /\ lastResponse.queryToken = None
  /\ pagesLog = << <<rA, rC>>, <<rD, rB>>, <<rA, rC>> >>
  /\ components = <<rA, rC, rD, rB, rA, rC>>

\* C2: when a continuation call fails after k >= 1 pages, get_all_components
\* issues no further call and returns exactly the records of those k pages
\* in order.
C2_PartialResultsOnFailure ==
  (/\ Returning
   /\ ~saturated
   /\ FailedResponse(lastResponse)
   /\ Len(pagesLog) >= 1)
  => /\ calls = Len(pagesLog) + 1
     /\ inflight = 0
     /\ all_components = Flatten(pagesLog)
     /\ pc = "got" => components = Flatten(pagesLog)

\* The second call came back with a non-2xx status; the first page is returned.
C2_Witness ==
  /\ pc = "got"
  /\ calls = 2
  /\ lastResponse.status = "http_error"
  /\ pagesLog = << <<rA, rC>> >>
  /\ components = <<rA, rC>>

Wrote(e) == e.outcome \in {"saved", "write_failed"}

\* C3: no two records that differ in componentId or in version are written to
\* the same file path.
C3_DistinctPaths ==
  \A j, k \in 1..Len(log) :
    (/\ j < k
     /\ Wrote(log[j])
     /\ Wrote(log[k])
     /\ \/ components[j].componentId # components[k].componentId
        \/ components[j].version # components[k].version)
    => log[j].path # log[k].path

FileAt(path) == \E f \in files : f.path = path

\* C4: a record's failure does not end the loop: the records are finished one
\* by one in list order, all of them by the end of the run, and a record
\* without a failure of its own has its file.
C4_FailuresDoNotAbort ==
  /\ pc \in {"export", "fetch_wait"} =>
       /\ Len(log) = i - 1
       /\ \A k \in 1..Len(log) : log[k].idx = k
  /\ (pc = "done" /\ components # <<>>) =>
       /\ Len(log) = Len(components)
       /\ \A k \in 1..Len(log) :
            /\ log[k].idx = k
            /\ log[k].outcome = "saved" => FileAt(log[k].path)

\* A failed directory creation, two missing ids, a failed write and a missing
\* id, and the last record is saved all the same.
C4_Witness ==
  /\ pc = "done"
  /\ components = <<rA, rC, rD, rB, rD, rB>>
  /\ [k \in 1..Len(log) |-> log[k].outcome] =
       <<"dir_failed", "skipped", "skipped", "write_failed", "skipped", "saved">>
  /\ FileAt(log[6].path)

IdAbsentOrEmpty(comp_meta) ==
  comp_meta.componentId = None \/ comp_meta.componentId = <<>>

\* C5: the iteration of a record whose componentId is absent or empty issues
\* no document fetch, creates no directory, writes no file, and moves on to
\* the next record.
C5_MissingIdSkipped ==
  [][(/\ pc = "export"
      /\ i <= Len(components)
      /\ IdAbsentOrEmpty(components[i]))
     => /\ nFetch' = nFetch
        /\ inflight' = inflight
        /\ dirs' = dirs
        /\ files' = files
        /\ pc' = "export"
        /\ i' = i + 1
        /\ Len(log') = Len(log) + 1
        /\ log'[Len(log')].outcome = "skipped"]_vars

\* A record with an empty id and one with no id were skipped and the record
\* after them was saved.
C5_Witness ==
  /\ pc = "done"
  /\ components = <<rA, rC, rD, rB>>
  /\ log[2].outcome = "skipped"
  /\ log[3].outcome = "skipped"
  /\ log[4].outcome = "saved"

AnyCredentialMissing ==
  \E c \in {BOOMI_ACCOUNT_ID, BOOMI_USERNAME, BOOMI_API_TOKEN} : c = None \/ c = <<>>

\* C6: with a credential missing or empty, the only step of the run prints the
\* error and ends it: no network call, no directory, no file.
C6_MissingCredentialsAbort ==
  [][AnyCredentialMissing
     => /\ pc = "main"
        /\ pc' = "done"
        /\ stdout' = <<ErrorMissingEnv>>
        /\ inflight' = 0 /\ calls' = 0 /\ nFetch' = 0
        /\ dirs' = dirs
        /\ files' = files]_vars

\* Only the API token is empty; the run ended on the error message.
C6_Witness ==
  /\ pc = "done"
  /\ BOOMI_ACCOUNT_ID = <<"u">> /\ BOOMI_USERNAME = <<"u">> /\ BOOMI_API_TOKEN = <<>>
  /\ stdout = <<ErrorMissingEnv>>
  /\ dirs = {} /\ files = {}

\* C7: a record's iteration leaves a file only if its fetch returned non-empty
\* content, that file then holds exactly the fetched text, and the run ends on
\* the closing message.
C7_FileHoldsFetchedText ==
  /\ \A k \in 1..Len(log) :
       log[k].written # None =>
         Truthy(log[k].fetched) /\ log[k].written = log[k].fetched
  /\ (pc = "done" /\ components # <<>>) => stdout = <<ExportComplete>>

\* get_all_components has returned.
Returned == pc \in {"got", "export", "fetch_wait", "done"}

\* The latest response ends the loop: it failed or it carries no token.
StopCondition ==
  /\ lastResponse.status # "none"
  /\ FailedResponse(lastResponse) \/ ~Truthy(lastResponse.queryToken)

\* C9 as stated: get_all_components terminates whatever the endpoint answers.
C9_AlwaysTerminates == (pc = "query") ~> Returned

\* C9, amended: a continuation call is made only after a response that carried
\* a token and carries that token unchanged; after a response without a token
\* or a failed call no further call is issued and get_all_components returns.
\* (Nothing ends the loop while every response carries a token.)
C9_StopsWhenTokensEnd ==
  /\ [](pc = "more_wait" =>
          /\ ~FailedResponse(lastResponse)
          /\ Truthy(lastResponse.queryToken)
          /\ sentToken = lastResponse.queryToken)
  /\ [](pc = "return" => StopCondition)
  /\ [][StopCondition => pc' \notin {"query_wait", "more_wait"}]_vars
  /\ StopCondition ~> (pc = "got")

\* Two continuation calls, the second with the second page's token T2, then a
\* page without a token ended the loop.
C9_Witness ==
  /\ pc = "return"
  /\ calls = 3
  /\ sentToken = T2
  /\ lastResponse.status = "ok" /\ lastResponse.queryToken = <<>>
  /\ Len(pagesLog) = 3

Phase(p) ==
  CASE p = "main" -> 0
    [] p \in {"query", "query_wait", "more", "more_wait", "return", "got"} -> 1
    [] p \in {"export", "fetch_wait"} -> 2
    [] OTHER -> 3

\* C10: the run moves through its phases in one direction; a network call is
\* issued only after the credential check passed and with none in flight; no
\* query or continuation call is issued once a document was fetched or a
\* record finished; records are finished in increasing index, each once.
C10_LinearPhases ==
  [][/\ Phase(pc') >= Phase(pc)
     /\ inflight' <= 1
     /\ inflight' > inflight =>
          /\ inflight = 0
          /\ pc # "main"
          /\ ~AnyCredentialMissing
     /\ (pc' \in {"query_wait", "more_wait"} /\ pc' # pc) =>
          /\ nFetch = 0
          /\ log = <<>>
     /\ nFetch' > nFetch => Phase(pc) = 2
     /\ log' # log =>
          /\ Len(log') = Len(log) + 1
          /\ SubSeq(log', 1, Len(log)) = log
          /\ log'[Len(log')].idx = Len(log) + 1
          /\ i' = i + 1]_vars

\* A run through every phase: three calls, then six records, three of them fetched.
C10_Witness ==
  /\ pc = "done"
  /\ Len(components) = 6
  /\ Len(log) = 6
  /\ nFetch = 3
  /\ stdout = <<ExportComplete>>

====
